---- MODULE Spec2Model ----
(***************************************************************************)
(* A model of parser-service/main.py: a FastAPI application with a single  *)
(* GET /health route, served by uvicorn on 0.0.0.0:8081.                    *)
(*                                                                         *)
(* The process is a state machine: Stopped -> Listening (or -> Exited when  *)
(* the bind fails).  While Listening, each request goes through the steps   *)
(* receive -> dispatch (route matching) -> handle (endpoint call and        *)
(* response serialisation) -> respond, and the steps of different requests  *)
(* interleave freely.                                                       *)
(***************************************************************************)
EXTENDS Integers, Sequences, FiniteSets, TLC

\* ------------------------------------------------------------------ bounds

\* How many requests one run of the server receives.
MaxRequests == 3

R == 1..MaxRequests

\* ------------------------------------------------------- program constants

\* uvicorn.run(app, host="0.0.0.0", port=8081)
host == "0.0.0.0"
port == 8081

\* The status code of a route declared with @app.get and no status_code.
default_status_code == 200

\* --------------------------------------------------------------- variables

VARIABLES
    argv,       \* the command line the process was started with
    environ,    \* the environment variables of the process
    portFree,   \* whether 0.0.0.0:8081 can be bound when the process starts
    lifecycle,  \* "Stopped" | "Listening" | "Exited"
    bind,       \* the address the listening socket is bound to
    exitCode,   \* the exit code of the process, -1 while it runs
    app,        \* the module-level FastAPI object
    reqs,       \* request id -> the request received
    pc,         \* request id -> "idle"|"received"|"dispatched"|"handled"|"responded"
    scope,      \* request id -> the outcome of route matching
    resp,       \* request id -> the response built for it
    afterErr,   \* request id -> was a non-200 response sent before it arrived
    copies      \* two copies of the server, stepped side by side

vars == <<argv, environ, portFree, lifecycle, bind, exitCode, app,
          reqs, pc, scope, resp, afterErr, copies>>

procVars == <<argv, environ, portFree, lifecycle, bind, exitCode>>
reqVars == <<reqs, pc, scope, resp, afterErr>>

\* ------------------------------------------------------------- the program

\* class HealthResponse(BaseModel): the declared fields, in order.
HealthResponse == <<"status", "service">>

\* A handler that names the service differently.
health_check_renamed ==
    [status |-> "healthy", service |-> "digital-recipes"]

\* health_check(): takes no parameter, returns a HealthResponse.
health_check ==
    [status |-> "healthy", service |-> "digital-recipes-parser"]

\* app = FastAPI(title=..., version=...): the documentation routes FastAPI
\* registers by default.
FastAPI ==
    [title |-> "Digital Recipes Parser Service",
     version |-> "1.0.0",
     state |-> <<>>,
     routes |-> << [path |-> "/openapi.json", methods |-> {"GET", "HEAD"}, name |-> "openapi"],
                   [path |-> "/docs", methods |-> {"GET", "HEAD"}, name |-> "swagger_ui_html"],
                   [path |-> "/redoc", methods |-> {"GET", "HEAD"}, name |-> "redoc_html"] >>]

\* @app.get("/health", response_model=HealthResponse): appends the route.
app_get(a) ==
    [a EXCEPT !.routes =
        Append(@, [path |-> "/health", methods |-> {"GET"}, name |-> "health_check"])]

\* The module-level app object once main.py is imported.
module_app == app_get(FastAPI)

\* ---------------------------------------------------------------- requests

NoRequest == [method |-> "", path |-> "", query |-> "", header |-> "", body |-> ""]
NoScope == [match |-> "", route |-> 0]
NoResponse == [status_code |-> 0, media_type |-> "", body |-> <<>>]
Unbound == [host |-> "", port |-> 0]

Methods == {"GET", "POST"}
Paths == {"/health", "/nonexistent", "/docs"}

\* The requests a client sends in a run: GET on every path, POST on /health,
\* and a GET /health that carries a query string, a header and a body.
Requests ==
    {q \in [method : Methods, path : Paths, query : {""}, header : {""}, body : {""}] :
        q.method = "GET" \/ q.path = "/health"}
    \cup {[method |-> "GET", path |-> "/health", query |-> "status=down",
           header |-> "X-Status: down", body |-> "{\"status\":\"down\"}"]}

IsHealthGet(req) == req.method = "GET" /\ req.path = "/health"

\* ----------------------------------------------------------------- routing

\* Route.matches: the path decides NONE, the method FULL or PARTIAL.
matches(route, req) ==
    IF route.path # req.path THEN "NONE"
    ELSE IF req.method \in route.methods THEN "FULL"
    ELSE "PARTIAL"

FirstMatch(routes, req, kind) ==
    LET S == {i \in 1..Len(routes) : matches(routes[i], req) = kind}
    IN  IF S = {} THEN 0 ELSE CHOOSE i \in S : \A j \in S : i <= j

\* A router that matches on the path alone, whatever the method.
router_match_any_method(routes, req) ==
    LET S == {i \in 1..Len(routes) : routes[i].path = req.path}
    IN  IF S = {} THEN [match |-> "NONE", route |-> 0]
        ELSE [match |-> "FULL", route |-> CHOOSE i \in S : \A j \in S : i <= j]

\* Router.__call__: the first full match, else the first partial one, else none.
router_match(routes, req) ==
    LET f == FirstMatch(routes, req, "FULL")
        p == FirstMatch(routes, req, "PARTIAL")
    IN  IF f > 0 THEN [match |-> "FULL", route |-> f]
        ELSE IF p > 0 THEN [match |-> "PARTIAL", route |-> p]
        ELSE [match |-> "NONE", route |-> 0]

\* ------------------------------------------------------------ serialisation

\* response_model: the value's declared fields, in declaration order, as the
\* members of a JSON object.
RECURSIVE serialize_response(_, _)
serialize_response(fields, value) ==
    IF fields = <<>> THEN <<>>
    ELSE <<<<Head(fields), value[Head(fields)]>>>>
         \o serialize_response(Tail(fields), value)

\* What a client's JSON parser makes of a body: the object, whatever the order
\* of its members.
parse_json(body) ==
    {body[i] : i \in 1..Len(body)}

JSONResponse(content, status) ==
    [status_code |-> status, media_type |-> "application/json", body |-> content]

HTMLResponse(a, page) ==
    [status_code |-> 200, media_type |-> "text/html",
     body |-> <<<<"title", a.title>>, <<"page", page>>>>]

\* A route declared with status_code=201.
run_endpoint_created(req) ==
    JSONResponse(serialize_response(HealthResponse, health_check), 201)

\* An endpoint that declares a query parameter `status` and returns it.
run_endpoint_query(req) ==
    JSONResponse(
        serialize_response(HealthResponse,
            [health_check EXCEPT !.status = IF req.query = "status=down" THEN "down" ELSE @]),
        default_status_code)

\* The request handler of the /health route: calls the endpoint with the
\* parameters it declares (none), validates the result against response_model
\* and renders it.
run_endpoint_function(req) ==
    JSONResponse(serialize_response(HealthResponse, health_check), default_status_code)

\* The application called on a matched scope.
app_call(a, sc, req) ==
    IF sc.match = "NONE" THEN JSONResponse(<<<<"detail", "Not Found">>>>, 404)
    ELSE IF sc.match = "PARTIAL"
        THEN JSONResponse(<<<<"detail", "Method Not Allowed">>>>, 405)
    ELSE IF a.routes[sc.route].name = "health_check" THEN run_endpoint_function(req)
    ELSE IF a.routes[sc.route].name = "openapi"
        THEN JSONResponse(<<<<"title", a.title>>, <<"version", a.version>>>>, 200)
    ELSE HTMLResponse(a, a.routes[sc.route].name)

\* -------------------------------------------------------------------- Init

Argvs == {<<>>, <<"--port", "9000">>}
Environs == {"", "PORT=9000"}

CopyIds == {"A", "B"}
IdleCopy == [req |-> NoRequest, pc |-> "idle", scope |-> NoScope, resp |-> NoResponse]

Init ==
    /\ argv \in Argvs
    /\ environ \in Environs
    /\ portFree \in BOOLEAN
    /\ lifecycle = "Stopped"
    /\ bind = Unbound
    /\ exitCode = -1
    /\ app = module_app
    /\ reqs = [r \in R |-> NoRequest]
    /\ pc = [r \in R |-> "idle"]
    /\ scope = [r \in R |-> NoScope]
    /\ resp = [r \in R |-> NoResponse]
    /\ afterErr = [r \in R |-> FALSE]
    /\ copies = [c \in CopyIds |-> IdleCopy]

\* ----------------------------------------------------------------- actions

\* A start-up that falls back to the next port when 8081 is taken.
uvicorn_run_fallback ==
    /\ lifecycle = "Stopped"
    /\ lifecycle' = "Listening"
    /\ bind' = [host |-> host, port |-> IF portFree THEN port ELSE port + 1]
    /\ UNCHANGED <<argv, environ, portFree, exitCode, app, reqs, pc, scope, resp,
                   afterErr, copies>>

\* A start-up that takes the port from the environment when PORT is set.
uvicorn_run_environ ==
    /\ lifecycle = "Stopped"
    /\ IF portFree
       THEN /\ lifecycle' = "Listening"
            /\ bind' = [host |-> host, port |-> IF environ = "PORT=9000" THEN 9000 ELSE port]
            /\ exitCode' = exitCode
       ELSE /\ lifecycle' = "Exited"
            /\ bind' = bind
            /\ exitCode' = 1
    /\ UNCHANGED <<argv, environ, portFree, app, reqs, pc, scope, resp, afterErr, copies>>

\* if __name__ == "__main__": uvicorn.run(app, host="0.0.0.0", port=8081).
\* The bind either succeeds, and the server listens, or fails, and the
\* process exits with a non-zero code.
uvicorn_run ==
    /\ lifecycle = "Stopped"
    /\ IF portFree
       THEN /\ lifecycle' = "Listening"
            /\ bind' = [host |-> host, port |-> port]
            /\ exitCode' = exitCode
       ELSE /\ lifecycle' = "Exited"
            /\ bind' = bind
            /\ exitCode' = 1
    /\ UNCHANGED <<argv, environ, portFree, app, reqs, pc, scope, resp, afterErr, copies>>

ErrorSent == \E q \in R : pc[q] = "responded" /\ resp[q].status_code # 200

\* A client's request reaches the listening socket.
Receive(r, req) ==
    /\ lifecycle = "Listening"
    /\ pc[r] = "idle"
    /\ r > 1 => pc[r - 1] # "idle"
    /\ reqs' = [reqs EXCEPT ![r] = req]
    /\ pc' = [pc EXCEPT ![r] = "received"]
    /\ afterErr' = [afterErr EXCEPT ![r] = ErrorSent]
    /\ UNCHANGED <<procVars, app, scope, resp, copies>>

\* The router matches the request against the routes of the app.
Dispatch(r) ==
    /\ lifecycle = "Listening"
    /\ pc[r] = "received"
    /\ scope' = [scope EXCEPT ![r] = router_match(app.routes, reqs[r])]
    /\ pc' = [pc EXCEPT ![r] = "dispatched"]
    /\ UNCHANGED <<procVars, app, reqs, resp, afterErr, copies>>

InFlight(r) == pc[r] \in {"received", "dispatched", "handled"}

\* A handler that counts the requests it serves in app.state.
HandleCounting(r) ==
    /\ lifecycle = "Listening"
    /\ pc[r] = "dispatched"
    /\ resp' = [resp EXCEPT ![r] = app_call(app, scope[r], reqs[r])]
    /\ pc' = [pc EXCEPT ![r] = "handled"]
    /\ app' = [app EXCEPT !.state = Append(@, r)]
    /\ UNCHANGED <<procVars, reqs, scope, afterErr, copies>>

\* A handler that serves one request at a time and turns the others away.
HandleExclusive(r) ==
    /\ lifecycle = "Listening"
    /\ pc[r] = "dispatched"
    /\ resp' = [resp EXCEPT ![r] =
            IF \E q \in R \ {r} : pc[q] = "handled"
            THEN JSONResponse(<<<<"detail", "Busy">>>>, 503)
            ELSE app_call(app, scope[r], reqs[r])]
    /\ pc' = [pc EXCEPT ![r] = "handled"]
    /\ UNCHANGED <<procVars, app, reqs, scope, afterErr, copies>>

\* A handler that waits for a request body before it answers.
HandleAwaitBody(r) ==
    /\ lifecycle = "Listening"
    /\ pc[r] = "dispatched"
    /\ reqs[r].body # ""
    /\ resp' = [resp EXCEPT ![r] = app_call(app, scope[r], reqs[r])]
    /\ pc' = [pc EXCEPT ![r] = "handled"]
    /\ UNCHANGED <<procVars, app, reqs, scope, afterErr, copies>>

\* The matched endpoint (or the default error handler) builds the response.
Handle(r) ==
    /\ lifecycle = "Listening"
    /\ pc[r] = "dispatched"
    /\ resp' = [resp EXCEPT ![r] = app_call(app, scope[r], reqs[r])]
    /\ pc' = [pc EXCEPT ![r] = "handled"]
    /\ UNCHANGED <<procVars, app, reqs, scope, afterErr, copies>>

\* A server that stops after the response it has written.
RespondAndStop(r) ==
    /\ lifecycle = "Listening"
    /\ pc[r] = "handled"
    /\ pc' = [pc EXCEPT ![r] = "responded"]
    /\ lifecycle' = "Stopped"
    /\ UNCHANGED <<argv, environ, portFree, bind, exitCode, app, reqs, scope, resp,
                   afterErr, copies>>

\* The response is written to the connection.
Respond(r) ==
    /\ lifecycle = "Listening"
    /\ pc[r] = "handled"
    /\ pc' = [pc EXCEPT ![r] = "responded"]
    /\ UNCHANGED <<procVars, app, reqs, scope, resp, afterErr, copies>>

Next ==
    \/ uvicorn_run
    \/ \E r \in R, req \in Requests : Receive(r, req)
    \/ \E r \in R : Dispatch(r)
    \/ \E r \in R : Handle(r)
    \/ \E r \in R : Respond(r)

Spec == Init /\ [][Next]_vars

\* The server runtime schedules every pending step of every request: the event
\* loop runs each ready task, and no step of the application blocks.  The
\* process is started plainly, with port 8081 free.
FairInit == Init /\ portFree /\ argv = <<>> /\ environ = ""

FairSpec ==
    /\ FairInit
    /\ [][Next]_vars
    /\ \A r \in R : WF_vars(Dispatch(r)) /\ WF_vars(Handle(r)) /\ WF_vars(Respond(r))

\* ------------------------------------------- two copies, stepped side by side

Queries == {"", "status=down", "verbose=1"}
Headers == {"", "X-Status: down"}
Bodies == {"", "{\"status\":\"down\"}"}

\* GET /health requests that differ only in their content.
HealthRequests ==
    [method : {"GET"}, path : {"/health"}, query : Queries, header : Headers, body : Bodies]

PairInit ==
    /\ argv = <<>>
    /\ environ = ""
    /\ portFree = TRUE
    /\ lifecycle = "Listening"
    /\ bind = [host |-> host, port |-> port]
    /\ exitCode = -1
    /\ app = module_app
    /\ reqs = [r \in R |-> NoRequest]
    /\ pc = [r \in R |-> "idle"]
    /\ scope = [r \in R |-> NoScope]
    /\ resp = [r \in R |-> NoResponse]
    /\ afterErr = [r \in R |-> FALSE]
    /\ copies \in [CopyIds -> {[IdleCopy EXCEPT !.req = q, !.pc = "received"] : q \in HealthRequests}]

PairDispatch(c) ==
    /\ copies[c].pc = "received"
    /\ copies' = [copies EXCEPT ![c].scope = router_match(app.routes, copies[c].req),
                                ![c].pc = "dispatched"]
    /\ UNCHANGED <<procVars, app, reqVars>>

PairHandle(c) ==
    /\ copies[c].pc = "dispatched"
    /\ copies' = [copies EXCEPT ![c].resp = app_call(app, copies[c].scope, copies[c].req),
                                ![c].pc = "handled"]
    /\ UNCHANGED <<procVars, app, reqVars>>

PairRespond(c) ==
    /\ copies[c].pc = "handled"
    /\ copies' = [copies EXCEPT ![c].pc = "responded"]
    /\ UNCHANGED <<procVars, app, reqVars>>

PairNext ==
    \/ \E c \in CopyIds : PairDispatch(c)
    \/ \E c \in CopyIds : PairHandle(c)
    \/ \E c \in CopyIds : PairRespond(c)

PairSpec == PairInit /\ [][PairNext]_vars

\* ------------------------------------------------------------------ claims

Served(r) == pc[r] \in {"handled", "responded"}
Answered(r) == pc[r] = "responded"
HealthAnswered(r) == Answered(r) /\ IsHealthGet(reqs[r])

\* The payload and the response the specification fixes for GET /health.
FixedObject == {<<"status", "healthy">>, <<"service", "digital-recipes-parser">>}
FixedResponse ==
    [status_code |-> 200, media_type |-> "application/json",
     body |-> <<<<"status", "healthy">>, <<"service", "digital-recipes-parser">>>>]

\* C1: whenever the server is Listening, and whatever requests came before, the
\* body of every GET /health response is the object {"status": "healthy",
\* "service": "digital-recipes-parser"}, and any two GET /health responses of a
\* run have the same body, member for member.
C1_FixedBody ==
    \A r \in R :
        HealthAnswered(r) =>
            /\ lifecycle = "Listening"
            /\ parse_json(resp[r].body) = FixedObject
            /\ Len(resp[r].body) = Cardinality(FixedObject)
            /\ \A q \in R : HealthAnswered(q) => resp[q].body = resp[r].body

\* Two GET /health requests answered, the later one after requests of other kinds.
C1_Witness ==
    \E r, q \in R :
        /\ r < q
        /\ HealthAnswered(r)
        /\ HealthAnswered(q)
        /\ \E e \in R : e < q /\ Answered(e) /\ ~IsHealthGet(reqs[e])

\* C2: every response to GET /health has status code 200 and declares a JSON
\* content type; no GET /health request is answered with another status.
C2_Status200Json ==
    \A r \in R :
        (Served(r) /\ IsHealthGet(reqs[r])) =>
            /\ resp[r].status_code = 200
            /\ resp[r].media_type = "application/json"

\* A GET /health request, with and without a query string, has been answered.
C2_Witness ==
    \E r, q \in R :
        /\ HealthAnswered(r) /\ reqs[r].query = ""
        /\ HealthAnswered(q) /\ reqs[q].query # ""

\* A step of the handling of a GET /health request r: its dispatch, its
\* handling or the sending of its response.
HealthStep(r) ==
    /\ IsHealthGet(reqs[r])
    /\ InFlight(r)
    /\ pc'[r] # pc[r]

C4_Independent ==
    \A r \in R :
        Served(r) =>
            /\ IsHealthGet(reqs[r]) => resp[r] = FixedResponse
            /\ \A q \in R : (Served(q) /\ reqs[q] = reqs[r]) => resp[q] = resp[r]

\* Three GET /health requests in the server at once, the last to arrive furthest
\* ahead and the first to arrive furthest behind.
C4_Witness ==
    /\ MaxRequests >= 3
    /\ \A r \in 1..3 : IsHealthGet(reqs[r])
    /\ pc[1] = "dispatched"
    /\ pc[2] = "handled"
    /\ pc[3] = "responded"

\* C5: when port 8081 is taken (or may not be bound) at start-up, the process
\* never listens and never binds any address, its only step is to exit with a
\* non-zero code, and once exited it does nothing more (no second bind).
C5_BindFailureExits ==
    /\ [](~portFree =>
            /\ lifecycle \in {"Stopped", "Exited"}
            /\ bind = Unbound
            /\ lifecycle = "Stopped" => ENABLED uvicorn_run
            /\ lifecycle = "Exited" => (exitCode > 0 /\ ~ENABLED Next))
    /\ [][~portFree => (lifecycle = "Stopped" /\ lifecycle' = "Exited" /\ exitCode' > 0)]_vars

\* The port was taken and the process has exited with code 1.
C5_Witness ==
    /\ ~portFree
    /\ lifecycle = "Exited"
    /\ exitCode = 1
    /\ bind = Unbound

\* A path no route of the app has, and a method the /health route does not take.
UnknownPath(req) == \A i \in 1..Len(app.routes) : app.routes[i].path # req.path
UnsupportedMethod(req) == req.path = "/health" /\ req.method # "GET"

\* C6: a request to an unknown path, or with an unsupported method on /health,
\* gets a status other than 200 and does not stop the server: it is still
\* Listening, and a GET /health that arrives afterwards gets 200 and the fixed
\* payload.
C6_ErrorsDoNotCrash ==
    /\ \A r \in R :
        (Served(r) /\ (UnknownPath(reqs[r]) \/ UnsupportedMethod(reqs[r]))) =>
            /\ resp[r].status_code \in {404, 405}
            /\ lifecycle = "Listening"
    /\ \A r \in R :
        (Served(r) /\ IsHealthGet(reqs[r]) /\ afterErr[r]) =>
            /\ resp[r].status_code = 200
            /\ parse_json(resp[r].body) = FixedObject

\* GET /nonexistent and POST /health were answered 404 and 405, and a GET
\* /health that arrived after both was answered.
C6_Witness ==
    \E r, q, h \in R :
        /\ Answered(r) /\ UnknownPath(reqs[r]) /\ resp[r].status_code = 404
        /\ Answered(q) /\ UnsupportedMethod(reqs[q]) /\ resp[q].status_code = 405
        /\ HealthAnswered(h) /\ afterErr[h] /\ r < h /\ q < h

\* C7: the lifecycle has the two states Stopped and Listening when the bind
\* succeeds; the only transition is Stopped -> Listening, it is taken at most
\* once, and the application never leaves Listening.
C7_Lifecycle ==
    /\ [](portFree => lifecycle \in {"Stopped", "Listening"})
    /\ [](lifecycle = "Stopped" => \A r \in R : pc[r] = "idle")
    /\ [][/\ lifecycle' # lifecycle => lifecycle = "Stopped"
          /\ lifecycle = "Listening" => lifecycle' = "Listening"
          /\ lifecycle' = "Listening" => portFree]_vars

\* The server is Listening and has answered every request of the run.
C7_Witness ==
    /\ lifecycle = "Listening"
    /\ \A r \in R : Answered(r)
    /\ \E r \in R : resp[r].status_code # 200

\* C8: under fair scheduling of the handling steps, every GET /health request
\* the Listening server has received is eventually answered, with the fixed
\* success response.
C8_EventuallyAnswered ==
    \A r \in R :
        (lifecycle = "Listening" /\ pc[r] = "received" /\ IsHealthGet(reqs[r]))
            ~> (pc[r] = "responded" /\ resp[r] = FixedResponse)

\* A GET /health request without a body has been answered while another request
\* is still being handled.
C8_Witness ==
    \E r, q \in R :
        /\ HealthAnswered(r) /\ reqs[r].body = ""
        /\ resp[r] = FixedResponse
        /\ InFlight(q)

\* C9: two copies of the server, each given a GET /health request, answer with
\* the same status and the same body whatever the query string, the headers
\* and the body of the two requests.
C9_ContentIndependent ==
    \A c, d \in CopyIds :
        (copies[c].pc \in {"handled", "responded"} /\ copies[d].pc \in {"handled", "responded"}) =>
            /\ copies[c].resp.status_code = copies[d].resp.status_code
            /\ copies[c].resp.body = copies[d].resp.body

\* Both copies have answered, and their requests differ in query, header and body.
C9_Witness ==
    /\ copies["A"].pc = "responded"
    /\ copies["B"].pc = "responded"
    /\ copies["A"].req.query = "status=down"
    /\ copies["B"].req.query = ""
    /\ copies["A"].req.header # copies["B"].req.header
    /\ copies["A"].req.body # copies["B"].req.body

\* C10: whenever the server is Listening it is bound to 0.0.0.0:8081, whatever
\* the command line and the environment, and no step changes the binding once
\* it is made.
C10_FixedBind ==
    /\ [](lifecycle = "Listening" => bind = [host |-> "0.0.0.0", port |-> 8081])
    /\ [][bind # Unbound => bind' = bind]_vars

\* The server listens, started with --port 9000 and PORT=9000, and has answered
\* a request.
C10_Witness ==
    /\ lifecycle = "Listening"
    /\ argv = <<"--port", "9000">>
    /\ environ = "PORT=9000"
    /\ \E r \in R : Answered(r)

====
